---------------------------- MODULE Spec2Model ----------------------------
(***************************************************************************)
(* A model of the value log: the segment manifest (src/src/manifest.rs),   *)
(* the file header (src/src/version.rs), and the ValueLog facade that the  *)
(* integration tests drive (src/tests/*.rs).  The facade, the segment      *)
(* writer and the index doubles are modelled from the written              *)
(* specification and from the way the tests call them.                     *)
(***************************************************************************)
EXTENDS Integers, Sequences, FiniteSets, TLC

(***************************************************************************)
(* Bounds of the model.                                                    *)
(***************************************************************************)
\* ids 0 .. MaxId-1 can be handed out by the id generator
MaxId == 3
\* blobs a caller appends to one MultiWriter before registering it
MaxBlobs == 2
\* config.segment_size: a MultiWriter seals its current segment once the
\* file has reached this many bytes (two blobs reach it unless both
\* values are empty, one blob does not)
TargetSegmentSize == 24
\* config.segment_size of a log whose segments take two blobs unless both
\* values have bytes
LargeSegmentSize == 25
\* faults in one behaviour: faults of the process or the machine, and I/O
\* errors of the file system (in writer.finish and in rewrite_atomic)
MaxFaults == 1

(***************************************************************************)
(* Program constants.                                                      *)
(***************************************************************************)
\* Version::len(): 3 magic bytes and a big-endian u16
FileHeaderLen == 5
\* u8 tag, u16 key_len, u32 value_len, u8 compression
BlobHeaderLen == 8
\* the width of the mantissa of an f32, hidden bit included
F32MantissaBits == 24
\* the width of the counters and sums (u64, AtomicU64)
U64Bits == 64

\* the keys and values callers write: keys are non-empty byte strings, a
\* value may be empty
Keys == { <<97>>, <<98>> }
Values == { << >>, <<7>> }

\* The key/value pairs a caller writes: the second key always carries a
\* non-empty value.
Inputs == { kv \in Keys \X Values : kv[1] = <<98>> => kv[2] # << >> }
Owners == { "user", "gc" }

(***************************************************************************)
(* Small helpers.                                                          *)
(***************************************************************************)
Max(S) == CHOOSE x \in S : \A y \in S : y <= x

RECURSIVE SortedSeq(_)
\* the ids of S in ascending order
SortedSeq(S) ==
  IF S = {} THEN <<>>
  ELSE LET m == CHOOSE x \in S : \A y \in S : x <= y
       IN <<m>> \o SortedSeq(S \ {m})

Range(s) == { s[i] : i \in 1..Len(s) }

RECURSIVE SumOver(_, _)
\* the sum of f over a finite set of arguments, as a build without overflow
\* checks adds u64 words up (a sum that passes 2^64 - 1 wraps around)
SumOver(f, S) ==
  IF S = {} THEN 0
  ELSE LET x == CHOOSE y \in S : TRUE
       IN f[x] + SumOver(f, S \ {x})

\* a function without the arguments in S
Without(f, S) == [x \in (DOMAIN f) \ S |-> f[x]]

(***************************************************************************)
(* Blob records and segment files.  A segment file is the 5-byte header    *)
(* followed by blob records; the model keeps the records and computes the  *)
(* byte offsets from their lengths.                                        *)
(***************************************************************************)
BlobLen(b) == BlobHeaderLen + Len(b.key) + Len(b.value)

RECURSIVE BlobBytes(_)
BlobBytes(blobs) ==
  IF blobs = <<>> THEN 0 ELSE BlobLen(Head(blobs)) + BlobBytes(Tail(blobs))

\* byte offset of the i-th record of a segment file
OffsetOf(blobs, i) == FileHeaderLen + BlobBytes(SubSeq(blobs, 1, i - 1))

ValueHandle(id, off) == [segment_id |-> id, offset |-> off]

(***************************************************************************)
(* The manifest file: a big-endian u64 count followed by that many u64     *)
(* ids.  The model keeps the file as its sequence of 8-byte words.         *)
(***************************************************************************)
\* write_to_disk's encoding of a list of ids
EncodeManifest(segment_ids) == <<Len(segment_ids)>> \o segment_ids

\* load_ids_from_disk succeeds: the count and every id it announces is there
ManifestReadable(bytes) == Len(bytes) >= 1 /\ Len(bytes) >= 1 + bytes[1]

\* load_ids_from_disk: the ids read (trailing words are not looked at)
load_ids_from_disk(bytes) == SubSeq(bytes, 2, 1 + bytes[1])

\* the lists that hold every element of S once
Orders(S) == { s \in [1..Cardinality(S) -> S] : Range(s) = S }

\* lock.keys().copied().collect(): the keys in the order the iterator of the
\* HashMap gives them, which changes from run to run: every order can come
KeysOf(map) == Orders(DOMAIN map)

(***************************************************************************)
(* Segment statistics.                                                     *)
(***************************************************************************)
\* Stats::default()
DefaultStats ==
  [ item_count |-> 0, total_bytes |-> 0, total_uncompressed_bytes |-> 0,
    stale_items |-> 0, stale_bytes |-> 0 ]

\* the Stats register builds from a finished segment writer
StatsOfWriter(w) ==
  [ item_count |-> w.item_count, total_bytes |-> w.written_blob_bytes,
    total_uncompressed_bytes |-> w.uncompressed_bytes,
    stale_items |-> 0, stale_bytes |-> 0 ]

\* SegmentWriter::new
NewSegmentWriter(id) ==
  [ segment_id |-> id, offset |-> FileHeaderLen, item_count |-> 0,
    written_blob_bytes |-> 0, uncompressed_bytes |-> 0 ]

VARIABLES
  status,           \* "up": a ValueLog is open; "down": the process has stopped;
                    \* "recovered": SegmentManifest::recover has returned;
                    \* "corrupt": recover failed
  segments,         \* SegmentManifestInner.segments: id -> Stats
  manifest_file,    \* the words of vlog_manifest as the file system shows them
  manifest_synced,  \* the contents vlog_manifest can come back with after
                    \* a stop of the machine
  seg_dirs,         \* segments/<id>: id -> the blob records of the segment file
  id_generator,     \* the next segment id
  writers,          \* the MultiWriters in flight, each with the record its
                    \* caller is about to write: owner -> [sealed, cur, n, pending]
  index,            \* the external index: key -> [segment_id, offset, size]
  op,               \* the manifest mutation that holds the write lock
  gc,               \* the GC caller: rollover / scan / drop_stale_segments
  faults,           \* faults and I/O errors so far
  hist,             \* history (not program state): what the claims refer back to
  codec,            \* the codec at work on one blob record or one file header
  reader            \* a caller inside stale_ratio or space_amp

log_vars == << status, segments, manifest_file, manifest_synced, seg_dirs,
               id_generator, writers, index, op, gc, faults, hist >>

vars == << status, segments, manifest_file, manifest_synced, seg_dirs,
           id_generator, writers, index, op, gc, faults, hist, codec, reader >>

NoOp == [ kind |-> "none", owner |-> "none", stage |-> "none", content |-> <<>>,
          ids |-> {} ]

GcIdle == [ pc |-> "idle", sources |-> {}, immediate |-> FALSE, buffer |-> << >>,
            alloc |-> {}, new_ids |-> {}, drop_ids |-> {}, result |-> "none",
            calls |-> << >>, items |-> << >> ]

\* hist.trail follows one rollover through the calls that come after it, as
\* long as no caller writes in between: "copied", then "rolled_ok" or
\* "rolled_err" (index_writer.finish), "scanned_ok" or "scanned_err"
\* (scan_for_stats), "dropped_ok" or "dropped_err" (drop_stale_segments)
NoTrail == "none"

LogInit ==
  \* ValueLog::open on an empty folder: create_new has written the empty manifest
  /\ status = "up"
  /\ segments = << >>
  /\ manifest_file = EncodeManifest(<< >>)
  /\ manifest_synced = { EncodeManifest(<< >>) }
  /\ seg_dirs = << >>
  /\ id_generator = 0
  /\ writers = << >>
  /\ index = << >>
  /\ op = NoOp
  /\ gc = GcIdle
  /\ faults = 0
  /\ hist = [ written |-> << >>, committed |-> {}, all_ids |-> {}, life_ids |-> {},
              swept |-> {}, trail |-> NoTrail ]

\* no record and no header is being encoded or decoded
CodecIdle == [ kind |-> "none" ]

\* nobody is inside stale_ratio or space_amp
ReaderIdle == [ pc |-> "idle", metric |-> "none", overflow_checks |-> FALSE,
                used_bytes |-> 0, stale_bytes |-> 0, todo |-> {},
                result |-> [ tag |-> "ok", value |-> << 0, 0 >> ], seen |-> {} ]

Init ==
  /\ LogInit
  /\ codec = CodecIdle
  /\ reader = ReaderIdle

(***************************************************************************)
(* Readers.                                                                *)
(***************************************************************************)
\* a lock that never excludes anybody
NeverWriteLocked == FALSE

\* the RwLock over segments is write-held while a register / drop_segments
\* call is between its first and last line
WriteLocked == op.kind # "none"

\* the RwLock over segments is read-held while stale_ratio or space_amp sums
\* the stale counters
ReadLocked == reader.pc = "summing"

\* SegmentManifest::get_segment: Some(stats) or None
get_segment(id) ==
  IF id \in DOMAIN segments THEN [tag |-> "Some", stats |-> segments[id]]
  ELSE [tag |-> "None", stats |-> DefaultStats]

\* SegmentManifest::list_segment_ids (as a set)
list_segment_ids == DOMAIN segments

\* the record of a segment file that starts at byte `off`, if there is one
RecordsAt(blobs, off) == { i \in 1..Len(blobs) : OffsetOf(blobs, i) = off }

\* ValueLog::get: None when the manifest does not know the segment, an error
\* when the file is gone or no record starts at the offset, else the value
get(h) ==
  IF h.segment_id \notin DOMAIN segments THEN [tag |-> "None", value |-> << >>]
  ELSE IF h.segment_id \notin DOMAIN seg_dirs
          \/ RecordsAt(seg_dirs[h.segment_id], h.offset) = {}
       THEN [tag |-> "Err", value |-> << >>]
  ELSE LET i == CHOOSE j \in RecordsAt(seg_dirs[h.segment_id], h.offset) : TRUE
       IN [tag |-> "Some", value |-> seg_dirs[h.segment_id][i].value]

(***************************************************************************)
(* The id generator.                                                       *)
(***************************************************************************)
\* the history of ids handed out, after `id` has been handed out
NoteAllocated(h, id) ==
  [h EXCEPT !.all_ids = @ \cup {id}, !.life_ids = @ \cup {id},
            !.committed = @ \ {id}]

(***************************************************************************)
(* Writers.                                                                *)
(***************************************************************************)
\* SegmentWriter::write: the counters after appending (k, v)
SegmentWriterWrite(w, k, v) ==
  LET n == BlobLen([key |-> k, value |-> v])
  IN [w EXCEPT !.offset = @ + n, !.item_count = @ + 1,
               !.written_blob_bytes = @ + n, !.uncompressed_bytes = @ + Len(v)]

\* MultiWriter::write: append to the current segment; when the file has
\* reached the target size, seal it and open a segment with a fresh id
MultiWriterWrite(mw, next_id, dirs, k, v) ==
  LET w2 == SegmentWriterWrite(mw.cur, k, v)
      dirs2 == [dirs EXCEPT ![mw.cur.segment_id] = Append(@, [key |-> k, value |-> v])]
  IN IF w2.offset >= mw.target_size
     THEN [ mw |-> [ sealed |-> Append(mw.sealed, w2),
                     cur |-> NewSegmentWriter(next_id), n |-> mw.n + 1,
                     pending |-> mw.pending, target_size |-> mw.target_size ],
            next_id |-> next_id + 1,
            dirs |-> (next_id :> << >>) @@ dirs2,
            fresh |-> {next_id} ]
     ELSE [ mw |-> [mw EXCEPT !.cur = w2, !.n = @ + 1],
            next_id |-> next_id, dirs |-> dirs2, fresh |-> {} ]

\* a finish that returns the current writer whether or not it has items
finish_keeps_current(mw) == Append(mw.sealed, mw.cur)

\* MultiWriter::finish: the sealed writers, and the current one unless empty
MultiWriterFinish(mw) ==
  IF mw.cur.item_count > 0 THEN Append(mw.sealed, mw.cur) ELSE mw.sealed

\* MultiWriter::new: one open segment, nothing written
NewMultiWriter(id, target_size) ==
  [ sealed |-> << >>, cur |-> NewSegmentWriter(id), n |-> 0, pending |-> << >>,
    target_size |-> target_size ]

\* ValueLog::get_writer of a log opened with config.segment_size = segment_size
GetWriterAt(segment_size) ==
  /\ status = "up"
  /\ "user" \notin DOMAIN writers
  /\ id_generator < MaxId
  /\ writers' = ("user" :> NewMultiWriter(id_generator, segment_size)) @@ writers
  /\ seg_dirs' = (id_generator :> << >>) @@ seg_dirs
  /\ id_generator' = id_generator + 1
  /\ hist' = NoteAllocated(hist, id_generator)
  /\ UNCHANGED << status, segments, manifest_file, manifest_synced, index, op, gc,
                  faults >>

\* ValueLog::get_writer
GetWriter == GetWriterAt(TargetSegmentSize)

\* the caller's loop body, first half (tests/rollover_index_fail_finish.rs
\* 80-86): writer.offset, then index.insert_indirection under the lock of
\* the index
InsertIndirection(k, v) ==
  /\ status = "up"
  /\ "user" \in DOMAIN writers
  /\ writers["user"].pending = << >>
  /\ writers["user"].n < MaxBlobs
  /\ LET mw == writers["user"]
     IN /\ index' = (k :> [segment_id |-> mw.cur.segment_id, offset |-> mw.cur.offset,
                           size |-> Len(v)]) @@ index
        /\ writers' = [writers EXCEPT !["user"].pending = << [key |-> k, value |-> v] >>]
  /\ hist' = [hist EXCEPT !.trail = NoTrail]
  /\ UNCHANGED << status, segments, manifest_file, manifest_synced, seg_dirs,
                  id_generator, op, gc, faults >>

\* the caller's loop body, second half (tests/rollover_index_fail_finish.rs
\* 88): writer.write
Write ==
  /\ status = "up"
  /\ "user" \in DOMAIN writers
  /\ writers["user"].pending # << >>
  /\ LET mw == writers["user"]
         k == mw.pending[1].key
         v == mw.pending[1].value
         h == ValueHandle(mw.cur.segment_id, mw.cur.offset)
         r == MultiWriterWrite(mw, id_generator, seg_dirs, k, v)
     IN /\ r.next_id <= MaxId
        /\ writers' = [writers EXCEPT !["user"] = [r.mw EXCEPT !.pending = << >>]]
        /\ seg_dirs' = r.dirs
        /\ id_generator' = r.next_id
        /\ hist' = LET h1 == [hist EXCEPT !.written =
                                 (h :> [key |-> k, value |-> v]) @@ @,
                                 !.trail = NoTrail]
                   IN IF r.fresh = {} THEN h1 ELSE NoteAllocated(h1, id_generator)
  /\ UNCHANGED << status, segments, manifest_file, manifest_synced, index, op, gc,
                  faults >>

\* a MultiWriter dropped without register: its files stay behind
DropWriter ==
  /\ status = "up"
  /\ "user" \in DOMAIN writers
  /\ writers["user"].pending = << >>
  /\ writers' = Without(writers, {"user"})
  /\ UNCHANGED << status, segments, manifest_file, manifest_synced, seg_dirs,
                  id_generator, index, op, gc, faults, hist >>

(***************************************************************************)
(* The manifest: register, drop_segments and the atomic rewrite.  A        *)
(* mutation takes the write lock, changes the map, encodes the key list    *)
(* and rewrites the file in three steps (temporary file, rename, fsync of  *)
(* the renamed file); every step can fail with an I/O error, and the       *)
(* process can stop between any two of them.                               *)
(***************************************************************************)
\* a register that builds the map from the finished writers alone
register_replaces(map, fin) ==
  [ id \in { fin[i].segment_id : i \in 1..Len(fin) } |->
      StatsOfWriter(fin[CHOOSE i \in 1..Len(fin) : fin[i].segment_id = id]) ]

\* register, lines 157-181: the map after inserting the finished writers
register(map, fin) ==
  LET ids == { fin[i].segment_id : i \in 1..Len(fin) }
      of(id) == CHOOSE i \in 1..Len(fin) : fin[i].segment_id = id
  IN [ id \in (DOMAIN map) \cup ids |->
         IF id \in ids THEN StatsOfWriter(fin[of(id)]) ELSE map[id] ]

\* a drop_segments that empties the map whenever it is given an id
drop_clears_map(map, ids) == IF ids = {} THEN map ELSE Without(map, DOMAIN map)

\* a retain whose closure lost its negation: the listed ids are the ones kept
drop_keeps_listed(map, ids) == [ id \in (DOMAIN map) \cap ids |-> map[id] ]

\* drop_segments, line 147: lock.retain(|x, _| !ids.contains(x))
drop_segments(map, ids) == Without(map, ids)

\* write_to_disk: the bytes handed to rewrite_atomic
write_to_disk(segment_ids) == EncodeManifest(segment_ids)

\* rewrite_atomic, line 21: temp_file.persist(path) renames the temporary
\* file over the manifest; nothing has been fsynced at this point
RewritePersisted(file, content) == content

\* what a file of this content can hold after a stop of the machine when
\* none of its bytes has been fsynced: the content, or a part of it
Unsynced(content) == { SubSeq(content, 1, n) : n \in 0..Len(content) }

\* rewrite_atomic, lines 19-21, and the disk: after a stop of the machine
\* the rename can be lost (what could come back before can still come
\* back), or the name is the new file's, whose bytes were never fsynced
RenamedUnsynced(synced, content) == synced \cup Unsynced(content)

\* rewrite_atomic, lines 27-28: File::open(path)?.sync_all(); the file
\* system is taken to commit the rename no later than the fsync of the
\* renamed file (the code never fsyncs the folder)
RewriteSynced(file, synced) == { file }

\* the GC caller after its register / drop_segments call has returned
GcAfter(g, owner, kind, result, ids) ==
  IF owner # "gc" THEN g
  ELSE IF kind = "register"
       THEN IF result = "ok"
            THEN [g EXCEPT !.pc = "registered", !.new_ids = ids]
            ELSE [g EXCEPT !.pc = "idle", !.new_ids = ids, !.result = "register_err"]
  ELSE IF result = "ok"
       THEN [g EXCEPT !.pc = "unlink"]
       ELSE [g EXCEPT !.pc = "idle", !.result = "drop_err"]

\* the history after a register / drop_segments call has returned
HistAfter(h, kind, result, ids) ==
  IF kind = "register" /\ result = "ok"
  THEN [h EXCEPT !.committed = @ \cup ids]
  ELSE IF kind = "drop" /\ result # "ok"
  THEN [h EXCEPT !.trail = NoTrail]
  ELSE h

\* register: lock, writer.finish(), the inserts, and the temporary file
RegisterBegin(owner, outcome) ==
  /\ status = "up"
  /\ ~WriteLocked
  /\ ~ReadLocked
  /\ owner \in DOMAIN writers
  /\ writers[owner].pending = << >>
  /\ owner = "gc" => gc.pc = "copied"
  /\ outcome # "ok" => faults < MaxFaults
  /\ faults' = IF outcome = "ok" THEN faults ELSE faults + 1
  /\ LET mw == writers[owner]
         fin == MultiWriterFinish(mw)
         ids == { fin[i].segment_id : i \in 1..Len(fin) }
         map == register(segments, fin)
     IN /\ writers' = Without(writers, {owner})
        /\ IF outcome = "finish_err"
           THEN \* line 155: writer.finish()? returns the error
                /\ segments' = segments
                /\ seg_dirs' = seg_dirs
                /\ op' = NoOp
                /\ gc' = GcAfter(gc, owner, "register", "err", {})
                /\ hist' = hist
           ELSE /\ segments' = map
                \* a current writer without items is discarded by finish
                /\ seg_dirs' = IF mw.cur.item_count = 0
                               THEN Without(seg_dirs, {mw.cur.segment_id})
                               ELSE seg_dirs
                /\ IF outcome = "tmp_err"
                   THEN \* lines 19-20: the temporary file cannot be written
                        /\ op' = NoOp
                        /\ gc' = GcAfter(gc, owner, "register", "err", ids)
                        /\ hist' = hist
                   ELSE /\ \E segment_ids \in KeysOf(map) :
                             op' = [ kind |-> "register", owner |-> owner,
                                     stage |-> "tmp",
                                     content |-> write_to_disk(segment_ids),
                                     ids |-> ids ]
                        /\ gc' = gc
                        /\ hist' = hist
  /\ UNCHANGED << status, manifest_file, manifest_synced, id_generator, index >>

\* rewrite_atomic, line 21: the rename
RewritePersist(ok) ==
  /\ status = "up"
  /\ op.stage = "tmp"
  /\ ~ok => faults < MaxFaults
  /\ faults' = IF ok THEN faults ELSE faults + 1
  /\ IF ok
     THEN /\ manifest_file' = RewritePersisted(manifest_file, op.content)
          /\ manifest_synced' = RenamedUnsynced(manifest_synced, op.content)
          /\ op' = [op EXCEPT !.stage = "renamed"]
          /\ UNCHANGED << gc, hist >>
     ELSE /\ manifest_file' = manifest_file
          /\ manifest_synced' = manifest_synced
          /\ op' = NoOp
          /\ gc' = GcAfter(gc, op.owner, op.kind, "err", op.ids)
          /\ hist' = HistAfter(hist, op.kind, "err", op.ids)
  /\ UNCHANGED << status, segments, seg_dirs, id_generator, writers, index >>

\* rewrite_atomic, lines 27-31: open, sync_all, Ok(()); the lock is released
RewriteSync(ok) ==
  /\ status = "up"
  /\ op.stage = "renamed"
  /\ ~ok => faults < MaxFaults
  /\ faults' = IF ok THEN faults ELSE faults + 1
  /\ manifest_synced' = IF ok THEN RewriteSynced(manifest_file, manifest_synced)
                        ELSE manifest_synced
  /\ op' = NoOp
  /\ gc' = GcAfter(gc, op.owner, op.kind, IF ok THEN "ok" ELSE "err", op.ids)
  /\ hist' = HistAfter(hist, op.kind, IF ok THEN "ok" ELSE "err", op.ids)
  /\ UNCHANGED << status, segments, manifest_file, seg_dirs, id_generator,
                  writers, index >>

(***************************************************************************)
(* Statistics: scan_for_stats and refresh_stats.                           *)
(***************************************************************************)
\* the index entries that point into segment id
LiveKeys(idx, id) == { k \in DOMAIN idx : idx[k].segment_id = id }

LiveItems(idx, id) == Cardinality(LiveKeys(idx, id))

LiveBytes(idx, id) == SumOver([k \in DOMAIN idx |-> idx[k].size], LiveKeys(idx, id))

\* A u64 is kept as an integer congruent to it modulo 2^64: n >= 0 stands
\* for n, and -n stands for 2^64 - n, the word a subtraction that wraps
\* around leaves (the words of the model are within 2^31 of 0 or of 2^64).
\* u64 subtraction as a build without overflow checks computes it
WrappingSub(a, b) == a - b

\* a < b for two u64: a word 2^64 - n is above every word n >= 0
U64Less(a, b) == IF (a >= 0) = (b >= 0) THEN a < b ELSE a >= 0

\* u64 subtraction a - b overflows: a build with overflow checks panics
SubOverflows(a, b) == U64Less(a, b)

\* u64 addition as a build without overflow checks computes it
WrappingAdd(a, b) == a + b

\* u64 addition a + b passes 2^64 - 1: a build with overflow checks panics
AddOverflows(a, b) ==
  IF a >= 0 /\ b >= 0 THEN FALSE
  ELSE IF a < 0 /\ b < 0 THEN TRUE
  ELSE a + b >= 0

\* scan_for_stats: every segment's stale counters become total - live, the
\* live counters being summed from the handles (and sizes) the caller passes
scan_for_stats(map, idx) ==
  [ id \in DOMAIN map |->
      [ map[id] EXCEPT
          !.stale_items = WrappingSub(map[id].item_count, LiveItems(idx, id)),
          !.stale_bytes = WrappingSub(map[id].total_uncompressed_bytes,
                                      LiveBytes(idx, id)) ] ]

\* the records of segment id that the index does not point at
DeadRecords(blobs, id, idx) ==
  { i \in 1..Len(blobs) :
      ~ ( /\ blobs[i].key \in DOMAIN idx
          /\ idx[blobs[i].key].segment_id = id
          /\ idx[blobs[i].key].offset = OffsetOf(blobs, i) ) }

\* refresh_stats: recount one segment by scanning its file against the index
refresh_stats(stats, blobs, id, idx) ==
  LET dead == DeadRecords(blobs, id, idx)
  IN [ stats EXCEPT
         !.stale_items = Cardinality(dead),
         !.stale_bytes = SumOver([i \in 1..Len(blobs) |-> Len(blobs[i].value)], dead) ]

\* Segment::stale_ratio() == 1.0: every byte is stale and there are bytes
IsFullyStale(stats) ==
  /\ stats.total_uncompressed_bytes > 0
  /\ stats.stale_bytes = stats.total_uncompressed_bytes

\* Segment::mark_as_stale
mark_as_stale(stats) ==
  [ stats EXCEPT !.stale_items = stats.item_count,
                 !.stale_bytes = stats.total_uncompressed_bytes ]

\* the state a process leaves behind when it stops: only the disk remains
ProcessStops ==
  /\ status' = "down"
  /\ segments' = << >>
  /\ writers' = << >>
  /\ op' = NoOp
  /\ gc' = GcIdle
  /\ id_generator' = 0
  /\ faults' = faults + 1
  \* the index of the tests is a BTreeMap in memory
  /\ index' = << >>
  /\ hist' = [hist EXCEPT !.trail = NoTrail]

\* ValueLog::scan_for_stats over the handles of the index as it stands
ScanForStats ==
  /\ status = "up"
  /\ ~WriteLocked
  /\ gc.pc = "idle"
  /\ segments' = scan_for_stats(segments, index)
  /\ hist' = [hist EXCEPT !.trail =
                IF @ = "rolled_ok" THEN "scanned_ok"
                ELSE IF @ = "rolled_err" THEN "scanned_err" ELSE NoTrail]
  /\ gc' = IF hist.trail \in {"rolled_ok", "rolled_err"}
           THEN [gc EXCEPT !.result = "none", !.drop_ids = {}]
           ELSE GcIdle
  /\ UNCHANGED << status, manifest_file, manifest_synced, seg_dirs,
                  id_generator, writers, index, op, faults >>

\* ValueLog::refresh_stats(id)
RefreshStats(id) ==
  /\ status = "up"
  /\ ~WriteLocked
  /\ gc.pc = "idle"
  /\ id \in DOMAIN segments
  /\ id \in DOMAIN seg_dirs
  /\ segments' = [segments EXCEPT
                    ![id] = refresh_stats(@, seg_dirs[id], id, index)]
  /\ hist' = [hist EXCEPT !.trail = NoTrail]
  /\ gc' = GcIdle
  /\ UNCHANGED << status, manifest_file, manifest_synced, seg_dirs, id_generator,
                  writers, index, op, faults >>

(***************************************************************************)
(* Rollover.                                                               *)
(***************************************************************************)
RECURSIVE RolloverItems(_, _)
\* the (key, value, segment id, offset) records of the source segments, in
\* id order and, within a segment, in file order
RolloverItems(ids, dirs) ==
  IF ids = << >> THEN << >>
  ELSE LET id == Head(ids)
           blobs == dirs[id]
       IN [ i \in 1..Len(blobs) |->
              [ key |-> blobs[i].key, value |-> blobs[i].value,
                segment_id |-> id, offset |-> OffsetOf(blobs, i) ] ]
          \o RolloverItems(Tail(ids), dirs)

\* a liveness test that looks at the segment of the handle and not at its offset
IsLiveInSegment(idx, it) ==
  /\ it.key \in DOMAIN idx
  /\ idx[it.key].segment_id = it.segment_id

\* a record of a source segment is live iff the index returns its handle
IsLive(idx, it) ==
  /\ it.key \in DOMAIN idx
  /\ idx[it.key].segment_id = it.segment_id
  /\ idx[it.key].offset = it.offset

\* the history of ids handed out, after the ids of S have been handed out
NoteAllocatedAll(h, S) ==
  [h EXCEPT !.all_ids = @ \cup S, !.life_ids = @ \cup S,
            !.committed = @ \ S]

\* where the copy loop goes once the records of `items` are left to look at
LoopAt(items) == IF items = << >> THEN "copied" ELSE "get"

\* rollover, first part, in a log opened with config.segment_size =
\* segment_size: get_writer, and the scanners over the source segments;
\* gc.items are the records the loop has not looked at yet
RolloverBeginAt(sources, immediate, segment_size) ==
  /\ status = "up"
  /\ ~WriteLocked
  /\ gc.pc = "idle"
  /\ sources # {}
  /\ sources \subseteq DOMAIN segments
  /\ sources \subseteq DOMAIN seg_dirs
  /\ id_generator < MaxId
  /\ LET items == RolloverItems(SortedSeq(sources), seg_dirs)
     IN gc' = [ GcIdle EXCEPT !.pc = LoopAt(items), !.sources = sources,
                              !.immediate = immediate, !.alloc = {id_generator},
                              !.items = items ]
  /\ writers' = ("gc" :> NewMultiWriter(id_generator, segment_size)) @@ writers
  /\ seg_dirs' = (id_generator :> << >>) @@ seg_dirs
  /\ id_generator' = id_generator + 1
  /\ hist' = [ NoteAllocated(hist, id_generator) EXCEPT !.trail = "copied" ]
  /\ UNCHANGED << status, segments, manifest_file, manifest_synced, index, op,
                  faults >>

\* rollover, first part
RolloverBegin(sources, immediate) ==
  RolloverBeginAt(sources, immediate, TargetSegmentSize)

\* the copy loop, step 2: index_reader.get(key) under the lock of the index;
\* a record whose handle the index does not return is passed over
RolloverGet ==
  /\ status = "up"
  /\ gc.pc = "get"
  /\ gc' = IF IsLive(index, Head(gc.items))
           THEN [gc EXCEPT !.pc = "insert"]
           ELSE [gc EXCEPT !.items = Tail(@), !.pc = LoopAt(Tail(gc.items))]
  /\ UNCHANGED << status, segments, manifest_file, manifest_synced, seg_dirs,
                  id_generator, writers, index, op, faults, hist >>

\* the copy loop, step 3, first half: writer.offset and
\* index_writer.insert_indirection; an index writer that applies at once
\* (immediate) changes the index under its lock, one that applies at finish
\* collects the new entries in gc.buffer
RolloverInsert ==
  /\ status = "up"
  /\ gc.pc = "insert"
  /\ LET it == Head(gc.items)
         mw == writers["gc"]
         entry == [ segment_id |-> mw.cur.segment_id, offset |-> mw.cur.offset,
                    size |-> Len(it.value) ]
     IN /\ index' = IF gc.immediate THEN (it.key :> entry) @@ index ELSE index
        /\ gc' = [gc EXCEPT
                    !.pc = "write",
                    !.buffer = IF gc.immediate THEN @ ELSE (it.key :> entry) @@ @,
                    !.calls = Append(@,
                       [ call |-> "insert_indirection", key |-> it.key,
                         handle |-> ValueHandle(entry.segment_id, entry.offset),
                         size |-> Len(it.value) ])]
  /\ UNCHANGED << status, segments, manifest_file, manifest_synced, seg_dirs,
                  id_generator, writers, op, faults, hist >>

\* the copy loop, step 3, second half: writer.write
RolloverWrite ==
  /\ status = "up"
  /\ gc.pc = "write"
  /\ LET it == Head(gc.items)
         mw == writers["gc"]
         h == ValueHandle(mw.cur.segment_id, mw.cur.offset)
         r == MultiWriterWrite(mw, id_generator, seg_dirs, it.key, it.value)
     IN /\ r.next_id <= MaxId
        /\ writers' = [writers EXCEPT !["gc"] = r.mw]
        /\ seg_dirs' = r.dirs
        /\ id_generator' = r.next_id
        /\ gc' = [gc EXCEPT
                    !.items = Tail(@), !.pc = LoopAt(Tail(gc.items)),
                    !.alloc = @ \cup r.fresh,
                    !.calls = Append(@,
                       [ call |-> "write", key |-> it.key,
                         handle |-> ValueHandle(h.segment_id,
                            OffsetOf(r.dirs[h.segment_id], Len(r.dirs[h.segment_id]))),
                         size |-> Len(it.value) ])]
        /\ hist' = [ NoteAllocatedAll(hist, r.fresh) EXCEPT
                       !.written = (h :> [key |-> it.key, value |-> it.value]) @@ @ ]
  /\ UNCHANGED << status, segments, manifest_file, manifest_synced, index, op,
                  faults >>

\* rollover, last part: index_writer.finish(); on success the source
\* segments are marked stale, on failure the error is returned
RolloverFinish(ok) ==
  /\ status = "up"
  /\ gc.pc = "registered"
  /\ IF ok
     THEN /\ index' = gc.buffer @@ index
          /\ segments' = [ id \in DOMAIN segments |->
                             IF id \in gc.sources THEN mark_as_stale(segments[id])
                             ELSE segments[id] ]
          /\ gc' = [gc EXCEPT !.pc = "idle", !.result = "ok", !.buffer = << >>,
                          !.calls = << >>]
          /\ hist' = [hist EXCEPT !.trail = IF @ = "copied" THEN "rolled_ok"
                                             ELSE NoTrail]
     ELSE /\ index' = index
          /\ segments' = segments
          /\ gc' = [gc EXCEPT !.pc = "idle", !.result = "finish_err", !.buffer = << >>,
                          !.calls = << >>]
          /\ hist' = [hist EXCEPT !.trail = IF @ = "copied" THEN "rolled_err"
                                             ELSE NoTrail]
  /\ UNCHANGED << status, manifest_file, manifest_synced, seg_dirs, id_generator,
                  writers, op, faults >>

(***************************************************************************)
(* drop_stale_segments.                                                    *)
(***************************************************************************)
\* the ids drop_stale_segments passes to drop_segments
StaleIds(map) == { id \in DOMAIN map : IsFullyStale(map[id]) }

\* drop_stale_segments, first part: drop_segments up to the temporary file
DropStaleBegin(tmp_ok) ==
  /\ status = "up"
  /\ ~WriteLocked
  /\ ~ReadLocked
  /\ gc.pc = "idle"
  /\ ~tmp_ok => faults < MaxFaults
  /\ faults' = IF tmp_ok THEN faults ELSE faults + 1
  /\ LET ids == StaleIds(segments)
         map == drop_segments(segments, ids)
     IN /\ segments' = map
        /\ IF tmp_ok
           THEN /\ \E segment_ids \in KeysOf(map) :
                     op' = [ kind |-> "drop", owner |-> "gc", stage |-> "tmp",
                             content |-> write_to_disk(segment_ids), ids |-> ids ]
                /\ gc' = [ (IF hist.trail \in {"scanned_ok", "scanned_err"}
                            THEN gc ELSE GcIdle)
                           EXCEPT !.pc = "dropping", !.drop_ids = ids,
                                  !.result = "none" ]
                /\ hist' = [hist EXCEPT !.trail =
                              IF @ \in {"scanned_ok", "scanned_err"} THEN @
                              ELSE NoTrail]
           ELSE /\ op' = NoOp
                /\ gc' = [GcIdle EXCEPT !.drop_ids = ids, !.result = "drop_err"]
                /\ hist' = [hist EXCEPT !.trail = NoTrail]
  /\ UNCHANGED << status, manifest_file, manifest_synced, seg_dirs, id_generator,
                  writers, index >>

\* drop_stale_segments, last part: the dropped segments' folders are removed
DropStaleUnlink ==
  /\ status = "up"
  /\ gc.pc = "unlink"
  /\ seg_dirs' = Without(seg_dirs, gc.drop_ids)
  /\ gc' = [gc EXCEPT !.pc = "idle", !.result = "ok"]
  /\ hist' = [hist EXCEPT
                !.written = Without(@, { h \in DOMAIN @ : h.segment_id \in gc.drop_ids }),
                !.trail = IF @ = "scanned_ok" THEN "dropped_ok"
                          ELSE IF @ = "scanned_err" THEN "dropped_err" ELSE NoTrail]
  /\ UNCHANGED << status, segments, manifest_file, manifest_synced, id_generator,
                  writers, index, op, faults >>

(***************************************************************************)
(* Crash and recovery.                                                     *)
(***************************************************************************)
\* what vlog_manifest can hold when the log is opened again: what the file
\* system showed (the process died and the machine ran on), or one of the
\* contents a stop of the machine can leave: after a rename that no completed
\* fsync has followed, what could come back before the rename, or the new
\* name with all or a part of its data, whether or not the new bytes are
\* the bytes of the file before
CrashOutcomes(file, synced) == { file } \cup synced

Crash ==
  /\ status = "up"
  /\ faults < MaxFaults
  /\ \E f \in CrashOutcomes(manifest_file, manifest_synced) :
        /\ manifest_file' = f
        /\ manifest_synced' = { f }
  /\ ProcessStops
  /\ UNCHANGED seg_dirs

\* a sweep with the membership test inverted: the registered folders go
sweep_registered(dirs, registered_ids) ==
  Without(dirs, { id \in DOMAIN dirs : id \in Range(registered_ids) })

\* a sweep that removes nothing
sweep_nothing(dirs, registered_ids) == dirs

\* remove_unfinished_segments: the folders left under segments/
remove_unfinished_segments(dirs, registered_ids) ==
  Without(dirs, { id \in DOMAIN dirs : id \notin Range(registered_ids) })

\* a recovery loop that stops one id early
recover_skips_highest(ids) ==
  [ id \in (IF ids = << >> THEN {} ELSE Range(ids) \ {Max(Range(ids))}) |->
      DefaultStats ]

\* SegmentManifest::recover, lines 108-123: the recovered map
recover(ids) == [ id \in Range(ids) |-> DefaultStats ]

\* ValueLog::open on an existing folder, first part: SegmentManifest::recover
Recover ==
  /\ status = "down"
  /\ ManifestReadable(manifest_file)
  /\ LET ids == load_ids_from_disk(manifest_file)
     IN /\ seg_dirs' = remove_unfinished_segments(seg_dirs, ids)
        /\ segments' = recover(ids)
        /\ hist' = [hist EXCEPT
                      !.life_ids = {},
                      !.committed = @ \cap Range(ids),
                      !.swept = (DOMAIN seg_dirs) \ Range(ids),
                      !.written = Without(@, { h \in DOMAIN @ :
                                                 h.segment_id \notin Range(ids) })]
  /\ status' = "recovered"
  /\ UNCHANGED << manifest_file, manifest_synced, id_generator, writers, index, op,
                  gc, faults >>

\* ValueLog::recover: the id generator continues after the highest id
NextIdAfter(ids) == IF ids = {} THEN 0 ELSE Max(ids) + 1

\* ValueLog::open on an existing folder, last part: the id generator is
\* seeded from the recovered manifest and the ValueLog is handed out
Open ==
  /\ status = "recovered"
  /\ id_generator' = NextIdAfter(DOMAIN segments)
  /\ status' = "up"
  /\ hist' = [hist EXCEPT !.swept = {}]
  /\ UNCHANGED << segments, manifest_file, manifest_synced, seg_dirs, writers,
                  index, op, gc, faults >>

\* load_ids_from_disk fails on a manifest that ends early
RecoverFails ==
  /\ status = "down"
  /\ ~ManifestReadable(manifest_file)
  /\ status' = "corrupt"
  /\ UNCHANGED << segments, manifest_file, manifest_synced, seg_dirs, id_generator,
                  writers, index, op, gc, faults, hist >>

Next ==
  \/ GetWriter /\ UNCHANGED << codec, reader >>
  \/ \E kv \in Inputs : InsertIndirection(kv[1], kv[2]) /\ UNCHANGED << codec, reader >>
  \/ Write /\ UNCHANGED << codec, reader >>
  \/ DropWriter /\ UNCHANGED << codec, reader >>
  \/ \E o \in Owners, outcome \in {"ok", "finish_err", "tmp_err"} :
        RegisterBegin(o, outcome) /\ UNCHANGED << codec, reader >>
  \/ \E ok \in BOOLEAN : RewritePersist(ok) /\ UNCHANGED << codec, reader >>
  \/ \E ok \in BOOLEAN : RewriteSync(ok) /\ UNCHANGED << codec, reader >>
  \/ ScanForStats /\ UNCHANGED << codec, reader >>
  \/ \E id \in 0..(MaxId - 1) : RefreshStats(id) /\ UNCHANGED << codec, reader >>
  \/ \E sources \in SUBSET (0..(MaxId - 1)), immediate \in BOOLEAN :
        RolloverBegin(sources, immediate) /\ UNCHANGED << codec, reader >>
  \/ RolloverGet /\ UNCHANGED << codec, reader >>
  \/ RolloverInsert /\ UNCHANGED << codec, reader >>
  \/ RolloverWrite /\ UNCHANGED << codec, reader >>
  \/ \E ok \in BOOLEAN : RolloverFinish(ok) /\ UNCHANGED << codec, reader >>
  \/ \E tmp_ok \in BOOLEAN : DropStaleBegin(tmp_ok) /\ UNCHANGED << codec, reader >>
  \/ DropStaleUnlink /\ UNCHANGED << codec, reader >>
  \/ Crash /\ UNCHANGED << codec, reader >>
  \/ Recover /\ UNCHANGED << codec, reader >>
  \/ Open /\ UNCHANGED << codec, reader >>
  \/ RecoverFails /\ UNCHANGED << codec, reader >>

Spec == Init /\ [][Next]_vars

(***************************************************************************)
(* The metrics of the manifest.                                            *)
(***************************************************************************)
\* An f32 is kept as the pair (m, e) that stands for m * 2^e, with
\* 2^23 <= m < 2^24; 0.0 is (0, 0).  Exponents stay far inside the range of
\* an f32, so there are no subnormals and no infinities.
Zero == << 0, 0 >>

Pow2(k) == 2 ^ k

RECURSIVE BitLength(_)
\* the number of bits of n > 0
BitLength(n) == IF n = 0 THEN 0 ELSE 1 + BitLength(n \div 2)

\* `n as f32` for a u64: the nearest f32, ties to the even mantissa
ToF32(n) ==
  IF n = 0 THEN Zero
  ELSE IF n < 0 THEN << Pow2(F32MantissaBits - 1), U64Bits - F32MantissaBits + 1 >>
  ELSE LET len == BitLength(n)
       IN IF len <= F32MantissaBits
          THEN << n * Pow2(F32MantissaBits - len), len - F32MantissaBits >>
          ELSE LET s == len - F32MantissaBits
                   q == n \div Pow2(s)
                   r == n % Pow2(s)
                   half == Pow2(s - 1)
                   up == r > half \/ (r = half /\ q % 2 = 1)
                   m == IF up THEN q + 1 ELSE q
               IN IF m = Pow2(F32MantissaBits)
                  THEN << Pow2(F32MantissaBits - 1), s + 1 >>
                  ELSE << m, s >>

RECURSIVE DivBits(_, _, _, _)
\* k more bits of the quotient of the long division by d: (quotient, remainder)
DivBits(q, r, d, k) ==
  IF k = 0 THEN << q, r >>
  ELSE IF 2 * r >= d THEN DivBits(2 * q + 1, 2 * r - d, d, k - 1)
       ELSE DivBits(2 * q, 2 * r, d, k - 1)

\* a / b for two f32, b not 0.0: the nearest f32, ties to the even mantissa
F32Div(a, b) ==
  IF a = Zero THEN Zero
  ELSE LET first == a[1] >= b[1]
           qr == IF first
                 THEN DivBits(1, a[1] - b[1], b[1], F32MantissaBits - 1)
                 ELSE DivBits(0, a[1], b[1], F32MantissaBits)
           e == a[2] - b[2] - (IF first THEN F32MantissaBits - 1 ELSE F32MantissaBits)
           up == 2 * qr[2] > b[1] \/ (2 * qr[2] = b[1] /\ qr[1] % 2 = 1)
           m == IF up THEN qr[1] + 1 ELSE qr[1]
       IN IF m = Pow2(F32MantissaBits)
          THEN << Pow2(F32MantissaBits - 1), e + 1 >>
          ELSE << m, e >>

\* a <= b for two f32 that are not negative
F32Leq(a, b) ==
  \/ a = Zero
  \/ b # Zero /\ (a[2] < b[2] \/ (a[2] = b[2] /\ a[1] <= b[1]))

\* `n as f32 / d as f32`
Quotient(n, d) == F32Div(ToF32(n), ToF32(d))

\* == on two f32
SameRatio(q, r) == q = r

\* a metric that returned, and one that panicked
Returned(q) == [ tag |-> "ok", value |-> q ]

Panicked == [ tag |-> "panic", value |-> Zero ]

\* a sum that gave a u64, and one that panicked
Summed(n) == [ tag |-> "ok", value |-> n ]

SumPanicked == [ tag |-> "panic", value |-> 0 ]

RECURSIVE SumOverflows(_, _)
\* one of the additions of the sum of f over S passes 2^64 - 1
SumOverflows(f, S) ==
  IF S = {} THEN FALSE
  ELSE LET x == CHOOSE y \in S : TRUE
       IN \/ SumOverflows(f, S \ {x})
          \/ AddOverflows(SumOver(f, S \ {x}), f[x])

\* .sum::<u64>(): overflow_checks tells the build: with them the sum panics
\* when an addition overflows, without them it wraps around
CheckedSum(f, S, overflow_checks) ==
  IF overflow_checks /\ SumOverflows(f, S) THEN SumPanicked
  ELSE Summed(SumOver(f, S))

\* the sum the first read lock of stale_ratio and of space_amp is taken for
SumUsedBytes(map, overflow_checks) ==
  CheckedSum([id \in DOMAIN map |-> map[id].total_uncompressed_bytes],
             DOMAIN map, overflow_checks)

\* the sum the second read lock of stale_ratio and of space_amp is taken for
SumStaleBytes(map, overflow_checks) ==
  CheckedSum([id \in DOMAIN map |-> map[id].stale_bytes], DOMAIN map,
             overflow_checks)

\* SegmentManifest::stale_ratio, from its two sums
stale_ratio_of(used_bytes, stale_bytes) ==
  IF used_bytes = 0 THEN Returned(Zero)
  ELSE IF stale_bytes = 0 THEN Returned(Zero)
  ELSE Returned(Quotient(stale_bytes, used_bytes))

\* SegmentManifest::space_amp, from its two sums; overflow_checks tells the
\* build: with them `used_bytes - stale_bytes` panics when it overflows,
\* without them it wraps around
space_amp_of(used_bytes, stale_bytes, overflow_checks) ==
  IF used_bytes = 0 THEN Returned(Zero)
  ELSE IF overflow_checks /\ SubOverflows(used_bytes, stale_bytes) THEN Panicked
  ELSE LET alive_bytes == WrappingSub(used_bytes, stale_bytes)
       IN IF alive_bytes = 0 THEN Returned(Zero)
          ELSE Returned(Quotient(used_bytes, alive_bytes))

\* the two metrics when nothing changes the map between their two sums:
\* the second sum is taken only when the first has not led to a return
stale_ratio(map, overflow_checks) ==
  LET used_bytes == SumUsedBytes(map, overflow_checks)
      stale_bytes == SumStaleBytes(map, overflow_checks)
  IN IF used_bytes.tag = "panic" THEN Panicked
     ELSE IF used_bytes.value = 0 THEN Returned(Zero)
     ELSE IF stale_bytes.tag = "panic" THEN Panicked
     ELSE stale_ratio_of(used_bytes.value, stale_bytes.value)

space_amp(map, overflow_checks) ==
  LET used_bytes == SumUsedBytes(map, overflow_checks)
      stale_bytes == SumStaleBytes(map, overflow_checks)
  IN IF used_bytes.tag = "panic" THEN Panicked
     ELSE IF used_bytes.value = 0 THEN Returned(Zero)
     ELSE IF stale_bytes.tag = "panic" THEN Panicked
     ELSE space_amp_of(used_bytes.value, stale_bytes.value, overflow_checks)

(***************************************************************************)
(* The manifest's map under concurrent callers: one caller inside          *)
(* stale_ratio or space_amp, others in register, drop_segments and         *)
(* mark_as_stale.  register and drop_segments hold the write lock from     *)
(* start to end; stale_ratio and space_amp take the read lock once for     *)
(* each of their two sums, and the second sum loads the stale counter of   *)
(* one segment after the other while mark_as_stale may store to them.      *)
(***************************************************************************)
Metrics == { "stale_ratio", "space_amp" }

MetricOf(metric, map, overflow_checks) ==
  IF metric = "stale_ratio" THEN stale_ratio(map, overflow_checks)
  ELSE space_amp(map, overflow_checks)

\* what is left alone by mark_as_stale and by the callers of the metrics
metric_frame == << status, manifest_file, manifest_synced, seg_dirs, id_generator,
                  writers, index, op, gc, faults, hist, codec >>

\* the history of a call in progress: the metric of every state of the map
NoteMap(r, map) ==
  IF r.pc \in { "between", "summing" }
  THEN [r EXCEPT !.seen = @ \cup { MetricOf(r.metric, map, r.overflow_checks) }]
  ELSE r

\* Segment::mark_as_stale on a registered segment: the stores to its counters
MetricMarkAsStale(id) ==
  /\ status = "up"
  /\ id \in DOMAIN segments
  /\ segments[id] # mark_as_stale(segments[id])
  /\ segments' = [segments EXCEPT ![id] = mark_as_stale(@)]
  /\ reader' = NoteMap(reader, [segments EXCEPT ![id] = mark_as_stale(@)])
  /\ UNCHANGED metric_frame

\* stale_ratio, lines 267-276, and space_amp, lines 298-308: the first read
\* lock, the sum of total_uncompressed_bytes, the early return
ReadUsedBytes(metric, overflow_checks) ==
  /\ status = "up"
  /\ reader.pc = "idle"
  /\ ~WriteLocked
  /\ LET used_bytes == SumUsedBytes(segments, overflow_checks)
     IN reader' = [ pc |-> IF used_bytes.tag = "panic" \/ used_bytes.value = 0
                           THEN "done" ELSE "between",
                    metric |-> metric, overflow_checks |-> overflow_checks,
                    used_bytes |-> used_bytes.value, stale_bytes |-> 0,
                    todo |-> {},
                    result |-> IF used_bytes.tag = "panic" THEN Panicked
                               ELSE Returned(Zero),
                    seen |-> { MetricOf(metric, segments, overflow_checks) } ]
  /\ UNCHANGED << segments, metric_frame >>

\* the caller once the stale counters of the segments in r.todo are left to
\* load: with none left the lock is released and the result computed
\* (stale_ratio, lines 286-290; space_amp, lines 318-323)
AfterLoad(r) ==
  IF r.todo # {} THEN r
  ELSE [ r EXCEPT
           !.pc = "done",
           !.result = IF r.metric = "stale_ratio"
                      THEN stale_ratio_of(r.used_bytes, r.stale_bytes)
                      ELSE space_amp_of(r.used_bytes, r.stale_bytes,
                                        r.overflow_checks) ]

\* stale_ratio, lines 278-282, and space_amp, lines 310-314: the second read
\* lock and the iterator over the segments of the map
LockStaleBytes ==
  /\ status = "up"
  /\ reader.pc = "between"
  /\ ~WriteLocked
  /\ reader' = AfterLoad([ reader EXCEPT !.pc = "summing", !.stale_bytes = 0,
                                         !.todo = DOMAIN segments ])
  /\ UNCHANGED << segments, metric_frame >>

\* stale_ratio, lines 283-284, and space_amp, lines 315-316: the load of one
\* segment's stale_bytes and its addition to the sum; the iterator gives the
\* segments in any order
LoadStaleBytes(id) ==
  /\ status = "up"
  /\ reader.pc = "summing"
  /\ id \in reader.todo
  /\ reader' =
       IF reader.overflow_checks
            /\ AddOverflows(reader.stale_bytes, segments[id].stale_bytes)
       THEN [ reader EXCEPT !.pc = "done", !.todo = {}, !.result = Panicked ]
       ELSE AfterLoad([ reader EXCEPT
                          !.stale_bytes = WrappingAdd(@, segments[id].stale_bytes),
                          !.todo = @ \ {id} ])
  /\ UNCHANGED << segments, metric_frame >>

ReaderReturns ==
  /\ reader.pc = "done"
  /\ reader' = ReaderIdle
  /\ UNCHANGED << segments, metric_frame >>

(***************************************************************************)
(* The manifest under a caller that registers writers and calls            *)
(* drop_segments with ids of its own choosing.                             *)
(***************************************************************************)
\* drop_segments(ids): lock, retain, and the temporary file of the rewrite
DropSegments(ids, tmp_ok) ==
  /\ status = "up"
  /\ ~WriteLocked
  /\ ~ReadLocked
  /\ ~tmp_ok => faults < MaxFaults
  /\ faults' = IF tmp_ok THEN faults ELSE faults + 1
  /\ LET map == drop_segments(segments, ids)
     IN /\ segments' = map
        /\ IF tmp_ok
           THEN \E segment_ids \in KeysOf(map) :
                   op' = [ kind |-> "drop", owner |-> "user", stage |-> "tmp",
                           content |-> write_to_disk(segment_ids), ids |-> ids ]
           ELSE op' = NoOp
  /\ hist' = [hist EXCEPT !.trail = NoTrail]
  /\ UNCHANGED << status, manifest_file, manifest_synced, seg_dirs, id_generator,
                  writers, index, gc >>

ManifestNext ==
  \/ GetWriter /\ UNCHANGED << codec, reader >>
  \/ \E kv \in Inputs : InsertIndirection(kv[1], kv[2]) /\ UNCHANGED << codec, reader >>
  \/ Write /\ UNCHANGED << codec, reader >>
  \/ \E outcome \in {"ok", "finish_err", "tmp_err"} :
        RegisterBegin("user", outcome) /\ UNCHANGED << codec, reader >>
  \/ \E ok \in BOOLEAN : RewritePersist(ok) /\ UNCHANGED << codec, reader >>
  \/ \E ok \in BOOLEAN : RewriteSync(ok) /\ UNCHANGED << codec, reader >>
  \/ \E ids \in SUBSET (0..(MaxId - 1)), tmp_ok \in BOOLEAN :
        DropSegments(ids, tmp_ok) /\ UNCHANGED << codec, reader >>

ManifestSpec == Init /\ [][ManifestNext]_vars

(***************************************************************************)
(* One process lifetime, free of I/O errors, of a log opened with the       *)
(* larger segment size: a segment takes two blobs, so a rollover copies up *)
(* to two records into one segment while the user's writer goes on         *)
(* writing; index_writer.finish may fail.                                  *)
(***************************************************************************)
RolloverNext ==
  \/ GetWriterAt(LargeSegmentSize) /\ UNCHANGED << codec, reader >>
  \/ \E kv \in Inputs : InsertIndirection(kv[1], kv[2]) /\ UNCHANGED << codec, reader >>
  \/ Write /\ UNCHANGED << codec, reader >>
  \/ \E o \in Owners : RegisterBegin(o, "ok") /\ UNCHANGED << codec, reader >>
  \/ RewritePersist(TRUE) /\ UNCHANGED << codec, reader >>
  \/ RewriteSync(TRUE) /\ UNCHANGED << codec, reader >>
  \/ \E sources \in SUBSET (0..(MaxId - 1)), immediate \in BOOLEAN :
        RolloverBeginAt(sources, immediate, LargeSegmentSize)
          /\ UNCHANGED << codec, reader >>
  \/ RolloverGet /\ UNCHANGED << codec, reader >>
  \/ RolloverInsert /\ UNCHANGED << codec, reader >>
  \/ RolloverWrite /\ UNCHANGED << codec, reader >>
  \/ \E ok \in BOOLEAN : RolloverFinish(ok) /\ UNCHANGED << codec, reader >>
  \/ ScanForStats /\ UNCHANGED << codec, reader >>
  \/ DropStaleBegin(TRUE) /\ UNCHANGED << codec, reader >>
  \/ DropStaleUnlink /\ UNCHANGED << codec, reader >>

RolloverSpec == Init /\ [][RolloverNext]_vars

(***************************************************************************)
(* The callers of the metrics next to the callers that change the map;    *)
(* the rename and the fsync of a rewrite, which come after the change of   *)
(* the map, do not fail here.                                              *)
(***************************************************************************)
\* A caller that has its result returns before any other caller takes its
\* next step: the return touches nothing the other callers read or write.
Busy == reader.pc # "done"

MetricNext ==
  \/ ReaderReturns
  \/ Busy /\ GetWriter /\ UNCHANGED << codec, reader >>
  \/ Busy /\ InsertIndirection(<< 97 >>, << 7 >>) /\ UNCHANGED << codec, reader >>
  \/ Busy /\ Write /\ UNCHANGED << codec, reader >>
  \/ \E outcome \in {"ok", "finish_err", "tmp_err"} :
        /\ Busy
        /\ RegisterBegin("user", outcome)
        /\ reader' = NoteMap(reader, segments')
        /\ UNCHANGED codec
  \/ Busy /\ RewritePersist(TRUE) /\ UNCHANGED << codec, reader >>
  \/ Busy /\ RewriteSync(TRUE) /\ UNCHANGED << codec, reader >>
  \/ \E ids \in SUBSET (0..(MaxId - 1)), tmp_ok \in BOOLEAN :
        /\ Busy
        /\ DropSegments(ids, tmp_ok)
        /\ reader' = NoteMap(reader, segments')
        /\ UNCHANGED codec
  \/ \E id \in 0..(MaxId - 1) : Busy /\ MetricMarkAsStale(id)
  \/ \E metric \in Metrics, overflow_checks \in BOOLEAN :
        /\ ReadUsedBytes(metric, overflow_checks)
  \/ LockStaleBytes
  \/ \E id \in 0..(MaxId - 1) : LoadStaleBytes(id)

MetricSpec == Init /\ [][MetricNext]_vars

(***************************************************************************)
(* The codec: compression tags, the blob record, the file header.          *)
(***************************************************************************)
MaxKeyLen == 2
MaxValueLen == 2
MaxHeaderInput == 5

\* the bytes keys and values are made of
DataBytes == { 0, 7 }
\* the bytes header inputs are made of: 'V', 'L', 'G', 'F' and the version bytes
HeaderBytes == { 0, 1, 70, 71, 76, 86 }
\* tag bytes tried on decode
TagBytes == 0..4

SeqsUpTo(S, n) == UNION { [ 1..m -> S ] : m \in 0..n }

CompressionTypes == { "None", "Lz4", "Miniz" }

\* impl From<CompressionType> for u8
u8_from(val) ==
  CASE val = "None" -> 0
    [] val = "Lz4" -> 1
    [] val = "Miniz" -> 2

\* a conversion with the arms of lz4 and deflate exchanged
try_from_exchanged(value) ==
  CASE value = 0 -> [ ok |-> TRUE, val |-> "None" ]
    [] value = 1 -> [ ok |-> TRUE, val |-> "Miniz" ]
    [] value = 2 -> [ ok |-> TRUE, val |-> "Lz4" ]
    [] OTHER -> [ ok |-> FALSE, val |-> "Err" ]

\* impl TryFrom<u8> for CompressionType
CompressionType_try_from(value) ==
  CASE value = 0 -> [ ok |-> TRUE, val |-> "None" ]
    [] value = 1 -> [ ok |-> TRUE, val |-> "Lz4" ]
    [] value = 2 -> [ ok |-> TRUE, val |-> "Miniz" ]
    [] OTHER -> [ ok |-> FALSE, val |-> "Err" ]

Versions == { "V1" }

\* impl From<Version> for u16
u16_from(value) == CASE value = "V1" -> 1

\* impl TryFrom<u16> for Version
Version_try_from(value) ==
  CASE value = 1 -> [ ok |-> TRUE, val |-> "V1" ]
    [] OTHER -> [ ok |-> FALSE, val |-> "Err" ]

\* byteorder, little endian: the low byte first
write_u16_le(n) == << n % 256, (n \div 256) % 256 >>

\* byteorder, WriteBytesExt::write_u16::<BigEndian>
write_u16_be(n) == << (n \div 256) % 256, n % 256 >>

\* byteorder, ReadBytesExt::read_u16::<BigEndian>
read_u16_be(b) == b[1] * 256 + b[2]

write_u32_be(n) ==
  << (n \div 16777216) % 256, (n \div 65536) % 256, (n \div 256) % 256, n % 256 >>

read_u32_be(b) == b[1] * 16777216 + b[2] * 65536 + b[3] * 256 + b[4]

write_u32_le(n) ==
  << n % 256, (n \div 256) % 256, (n \div 65536) % 256, (n \div 16777216) % 256 >>

read_u32_le(b) == b[1] + b[2] * 256 + b[3] * 65536 + b[4] * 16777216

MAGIC_BYTES == << 86, 76, 71 >>

\* Version::write_file_header: the bytes written and the size returned
write_file_header(version) ==
  [ bytes |-> MAGIC_BYTES \o write_u16_be(u16_from(version)), size |-> 5 ]

None == [ ok |-> FALSE, val |-> "None" ]

\* a parse that reads the version without looking at the magic
parse_any_magic(bytes) ==
  IF Len(bytes) < 5 THEN None
  ELSE LET version == Version_try_from(read_u16_be(SubSeq(bytes, 4, 5)))
       IN IF version.ok THEN version ELSE None

\* Version::parse_file_header
parse_file_header(bytes) ==
  IF Len(bytes) < 3 THEN None
  ELSE IF SubSeq(bytes, 1, 3) = MAGIC_BYTES
       THEN IF Len(bytes) < 5 THEN None
            ELSE LET version == Version_try_from(read_u16_be(SubSeq(bytes, 4, 5)))
                 IN IF version.ok THEN version ELSE None
       ELSE None

DropFirst(b, n) == SubSeq(b, n + 1, Len(b))

\* the codecs, each by the stream it writes for a short value: lz4 is the
\* size-prepended block of one sequence of literals, deflate is one stored block
compress(c, value) ==
  CASE c = "None" -> value
    [] c = "Lz4" -> write_u32_le(Len(value)) \o << Len(value) * 16 >> \o value
    [] c = "Miniz" -> << 1 >> \o write_u16_le(Len(value))
                        \o write_u16_le(65535 - Len(value)) \o value

decompress(c, payload) ==
  CASE c = "None" -> [ ok |-> TRUE, value |-> payload ]
    [] c = "Lz4" ->
         \* a prepended size of 2^16 or more is beyond every payload here
         IF /\ Len(payload) >= 5
            /\ payload[3] = 0 /\ payload[4] = 0
            /\ payload[5] = 16 * read_u32_le(SubSeq(payload, 1, 4))
            /\ Len(payload) = 5 + read_u32_le(SubSeq(payload, 1, 4))
         THEN [ ok |-> TRUE, value |-> DropFirst(payload, 5) ]
         ELSE [ ok |-> FALSE, value |-> << >> ]
    [] c = "Miniz" ->
         IF /\ Len(payload) >= 5
            /\ payload[1] = 1
            /\ payload[2] + 256 * payload[3] + payload[4] + 256 * payload[5] = 65535
            /\ Len(payload) = 5 + payload[2] + 256 * payload[3]
         THEN [ ok |-> TRUE, value |-> DropFirst(payload, 5) ]
         ELSE [ ok |-> FALSE, value |-> << >> ]

\* encode(key, value, compression): tag, key length, length of the value as
\* stored, compression tag, key, value as stored
encode(key, value, c) ==
  LET payload == compress(c, value)
  IN << 0 >> \o write_u16_be(Len(key)) \o write_u32_be(Len(payload))
       \o << u8_from(c) >> \o key \o payload

Failed(err) == [ ok |-> FALSE, err |-> err, key |-> << >>, value |-> << >> ]

\* decode(reader) -> (key, value)
decode(bytes) ==
  IF Len(bytes) < BlobHeaderLen THEN Failed("Io")
  ELSE LET key_len == read_u16_be(SubSeq(bytes, 2, 3))
           value_len == read_u32_be(SubSeq(bytes, 4, 7))
           c == CompressionType_try_from(bytes[8])
       IN IF ~c.ok THEN Failed("InvalidTag")
          ELSE IF Len(bytes) < BlobHeaderLen + key_len + value_len THEN Failed("Io")
          ELSE LET key == SubSeq(bytes, BlobHeaderLen + 1, BlobHeaderLen + key_len)
                   payload == SubSeq(bytes, BlobHeaderLen + key_len + 1,
                                     BlobHeaderLen + key_len + value_len)
                   v == decompress(c.val, payload)
               IN IF v.ok
                  THEN [ ok |-> TRUE, err |-> "none", key |-> key, value |-> v.value ]
                  ELSE Failed("Decompress")

NoResult == [ ok |-> FALSE, err |-> "none", key |-> << >>, value |-> << >> ]

\* what the codec is given: a blob to encode, a version to write, bytes to parse
CodecInputs ==
  { [ kind |-> "blob", pc |-> "input", key |-> k, value |-> v, compression |-> c,
      bytes |-> << >>, result |-> NoResult ] :
      k \in SeqsUpTo(DataBytes, MaxKeyLen) \ { << >> },
      v \in SeqsUpTo(DataBytes, MaxValueLen),
      c \in CompressionTypes }
  \cup
  { [ kind |-> "header", pc |-> "input", version |-> version, bytes |-> << >>,
      size |-> 0, result |-> None ] : version \in Versions }
  \cup
  { [ kind |-> "bytes", pc |-> "encoded", bytes |-> b, result |-> None ] :
      b \in SeqsUpTo(HeaderBytes, MaxHeaderInput) }

CodecInit ==
  /\ LogInit
  /\ codec \in CodecInputs
  /\ reader = ReaderIdle

EncodeBlob ==
  /\ codec.kind = "blob" /\ codec.pc = "input"
  /\ codec' = [ codec EXCEPT !.pc = "encoded",
                  !.bytes = encode(codec.key, codec.value, codec.compression) ]
  /\ UNCHANGED << log_vars, reader >>

\* the compression tag of the record is overwritten
OverwriteTag(t) ==
  /\ codec.kind = "blob" /\ codec.pc = "encoded"
  /\ codec.bytes[8] # t
  /\ codec' = [ codec EXCEPT !.pc = "overwritten", !.bytes[8] = t ]
  /\ UNCHANGED << log_vars, reader >>

DecodeBlob ==
  /\ codec.kind = "blob" /\ codec.pc \in { "encoded", "overwritten" }
  /\ codec' = [ codec EXCEPT
                  !.pc = IF codec.pc = "encoded" THEN "decoded" ELSE "refused",
                  !.result = decode(codec.bytes) ]
  /\ UNCHANGED << log_vars, reader >>

WriteFileHeader ==
  /\ codec.kind = "header" /\ codec.pc = "input"
  /\ LET w == write_file_header(codec.version)
     IN codec' = [ codec EXCEPT !.pc = "encoded", !.bytes = w.bytes,
                     !.size = w.size ]
  /\ UNCHANGED << log_vars, reader >>

ParseFileHeader ==
  /\ codec.kind \in { "header", "bytes" } /\ codec.pc = "encoded"
  /\ codec' = [ codec EXCEPT !.pc = "decoded",
                  !.result = parse_file_header(codec.bytes) ]
  /\ UNCHANGED << log_vars, reader >>

CodecNext ==
  \/ EncodeBlob
  \/ \E t \in TagBytes : OverwriteTag(t)
  \/ DecodeBlob
  \/ WriteFileHeader
  \/ ParseFileHeader

CodecSpec == CodecInit /\ [][CodecNext]_vars

(***************************************************************************)
(* Properties.                                                             *)
(***************************************************************************)
\* a reader can take the read lock of the manifest
CanRead == status = "up" /\ ~WriteLocked

\* the segment ids a MultiWriter holds
WriterIds(mw) ==
  {mw.cur.segment_id} \cup { mw.sealed[i].segment_id : i \in 1..Len(mw.sealed) }

\* the ids whose register call has not returned: held by a writer, or by a
\* register call that is between its first and its last line
UnregisteredIds ==
  UNION { WriterIds(writers[o]) : o \in DOMAIN writers }
  \cup (IF op.kind = "register" THEN op.ids ELSE {})

\* the handles written into registered segments whose register returned Ok
\* and that are still registered
CommittedHandles ==
  { h \in DOMAIN hist.written :
      h.segment_id \in hist.committed /\ h.segment_id \in DOMAIN segments }

\* C1: a handle produced by a successful write and a successful register
\* reads back the value written at it, whatever happened since (writes,
\* registers, scans, rollovers, drops of other segments, a restart), for as
\* long as its segment has not been dropped.
C1_GetReturnsWrittenValue ==
  CanRead =>
    \A h \in CommittedHandles :
       get(h) = [tag |-> "Some", value |-> hist.written[h].value]

\* C1 witness: a committed handle with a non-empty value is read after a
\* rollover, a scan and a drop of other segments have completed.
C1_Witness ==
  /\ CanRead
  /\ hist.trail = "dropped_ok"
  /\ gc.sources \ DOMAIN segments # {}
  /\ \E h \in CommittedHandles : get(h).tag = "Some" /\ get(h).value # << >>

\* C2: after a crash at any step of a manifest rewrite the manifest file on
\* disk is a complete manifest, never an empty or truncated one.
C2_CrashLeavesCompleteManifest ==
  status \in {"down", "corrupt"} => ManifestReadable(manifest_file)

\* C3: when recover has returned, the folders under segments/ are exactly
\* the ids stored in the manifest, the recovered map holds exactly those
\* ids, and nothing registered was swept.
C3_RecoverLeavesManifestIds ==
  status = "recovered" =>
    LET ids == Range(load_ids_from_disk(manifest_file))
    IN /\ DOMAIN seg_dirs = ids
       /\ DOMAIN segments = ids
       /\ hist.swept \cap ids = {}

\* C3 witness: recover has returned after sweeping an unregistered folder
\* and keeping a registered one.
C3_Witness ==
  /\ status = "recovered"
  /\ hist.swept # {}
  /\ DOMAIN segments # {}

\* C4: no dangling reference: every handle the index holds into a segment
\* whose register returned Ok refers to a registered segment, and get on it
\* returns the key's value.
C4_NoDanglingReference ==
  CanRead =>
    \A k \in DOMAIN index :
       LET h == ValueHandle(index[k].segment_id, index[k].offset)
       IN h.segment_id \in hist.committed =>
            /\ h.segment_id \in DOMAIN segments
            /\ h \in DOMAIN hist.written
            /\ hist.written[h].key = k
            /\ get(h) = [tag |-> "Some", value |-> hist.written[h].value]

\* C5: when index_writer.finish fails, rollover returns the error, and the
\* manifest (the map and the file) lists the source segments and the new
\* segments; no segment the rollover wrote is left as an unregistered folder.
C5_FailedFinishLeavesBothRegistered ==
  /\ hist.trail = "rolled_err" => gc.result = "finish_err"
  /\ gc.result = "finish_err" =>
       /\ gc.sources \cup gc.new_ids \subseteq DOMAIN segments
       /\ ManifestReadable(manifest_file)
       /\ gc.sources \cup gc.new_ids \subseteq Range(load_ids_from_disk(manifest_file))
       /\ \A id \in gc.alloc : id \in DOMAIN seg_dirs => id \in gc.new_ids

\* C5 witness: a rollover that copied something has returned the error of
\* index_writer.finish.
C5_Witness ==
  /\ gc.result = "finish_err"
  /\ gc.new_ids # {}
  /\ gc.sources # {}

\* C6: after a failed rollover, scan_for_stats over the index as it stands
\* gives stale_ratio 1.0 to exactly the segments (sources and new ones) that
\* the index does not reference, and drop_stale_segments then removes those
\* and only those.
C6_FailedRolloverReclaimsLosingSide ==
  /\ hist.trail = "scanned_err" =>
       \A id \in (gc.sources \cup gc.new_ids) \cap DOMAIN segments :
          IsFullyStale(segments[id]) <=> LiveKeys(index, id) = {}
  /\ hist.trail = "dropped_err" =>
       \A id \in gc.sources \cup gc.new_ids :
          id \in DOMAIN segments <=> LiveKeys(index, id) # {}

\* C7: after a successful rollover of S, scan_for_stats finds no
\* live blob in S, drop_stale_segments removes every segment of S, and every
\* key copied by the rollover is readable through its new handle.
C7_SuccessfulRolloverDropsSources ==
  /\ hist.trail \in {"scanned_ok", "dropped_ok"} =>
       \A id \in gc.sources : LiveKeys(index, id) = {}
  /\ hist.trail = "dropped_ok" =>
       /\ gc.sources \cap DOMAIN segments = {}
       /\ gc.new_ids \subseteq DOMAIN segments
       /\ \A h \in DOMAIN hist.written :
             h.segment_id \in gc.alloc =>
                /\ hist.written[h].key \in DOMAIN index
                /\ ValueHandle(index[hist.written[h].key].segment_id,
                               index[hist.written[h].key].offset) = h
                /\ get(h) = [tag |-> "Some", value |-> hist.written[h].value]

\* C8: for every registered segment the stale counters stay within the
\* totals: stale_items <= item_count and stale_bytes <= total_uncompressed_bytes.
C8_StaleWithinTotals ==
  \A id \in DOMAIN segments :
     /\ segments[id].stale_items <= segments[id].item_count
     /\ segments[id].stale_bytes <= segments[id].total_uncompressed_bytes

\* C9 as written: an id the generator hands out was never handed out
\* before, in this process lifetime or in an earlier one.
C9_IdsNeverHandedOutTwice ==
  [][ (status = "up" /\ status' = "up") =>
        \A id \in id_generator..(id_generator' - 1) : id \notin hist.all_ids ]_vars

\* C9 amended: within a process lifetime no id is handed out twice, and
\* after a recover the generator is above every id of the recovered
\* manifest and every folder under segments/: the next id handed out is
\* above every id handed out in this lifetime, every registered id and
\* every existing segment folder.
C9_IdsFreshAmongLiveAndRegistered ==
  status = "up" =>
    \A id \in hist.life_ids \cup DOMAIN segments \cup DOMAIN seg_dirs :
       id < id_generator

\* C9 witness: after a restart a segment id is handed out while a recovered
\* segment is registered.
C9_Witness ==
  /\ status = "up"
  /\ faults > 0
  /\ hist.life_ids # {}
  /\ DOMAIN segments \ hist.life_ids # {}

\* C10: between write on a writer and the return of register for that
\* writer, every reader gets None from get_segment and from get for the
\* writer's segments and handles.
C10_ObservableOnlyAfterRegister ==
  CanRead =>
    \A id \in UnregisteredIds :
       /\ get_segment(id).tag = "None"
       /\ \A h \in DOMAIN hist.written :
             h.segment_id = id => get(h).tag = "None"

\* C10 witness: a reader runs while a writer holds a written, unregistered
\* handle and another segment is already registered.
C10_Witness ==
  /\ CanRead
  /\ DOMAIN segments # {}
  /\ \E h \in DOMAIN hist.written : h.segment_id \in UnregisteredIds


\* the step in which drop_stale_segments chooses and drops its segments
DropStaleStep == \E tmp_ok \in BOOLEAN : DropStaleBegin(tmp_ok)

\* C11: drop_stale_segments removes from the map exactly the segments with
\* stale_bytes = total_uncompressed_bytes and total_uncompressed_bytes > 0:
\* each of them goes, every other segment stays with its stats, and the
\* manifest it hands to the rewrite lists the segments that stay.
C11_DropsExactlyFullyDead ==
  [][ DropStaleStep =>
        LET dead == { id \in DOMAIN segments :
                        /\ segments[id].total_uncompressed_bytes > 0
                        /\ segments[id].stale_bytes
                             = segments[id].total_uncompressed_bytes }
        IN /\ DOMAIN segments' = (DOMAIN segments) \ dead
           /\ \A id \in DOMAIN segments' : segments'[id] = segments[id]
           /\ op'.kind = "drop" =>
                /\ op'.ids = dead
                /\ Range(load_ids_from_disk(op'.content)) = DOMAIN segments' ]_vars

\* C11 witness: drop_stale_segments has dropped a fully dead segment and kept
\* a segment that has no bytes at all and a segment with live bytes.
C11_Witness ==
  /\ gc.pc = "dropping"
  /\ gc.drop_ids # {}
  /\ \E id \in DOMAIN segments : segments[id].total_uncompressed_bytes = 0
  /\ \E id \in DOMAIN segments :
        segments[id].stale_bytes < segments[id].total_uncompressed_bytes

\* C12: a blob record decodes to the key and the value it was encoded from,
\* for every non-empty key, every value and every compression type, and the
\* tag byte of every compression type converts back to that type, while every
\* other byte converts to none.
C12_BlobRoundTrip ==
  /\ (codec.kind = "blob" /\ codec.pc = "decoded") =>
       /\ codec.result.ok
       /\ codec.result.key = codec.key
       /\ codec.result.value = codec.value
       /\ codec.bytes[8] = u8_from(codec.compression)
  /\ (codec.kind = "blob" /\ codec.pc = "refused") =>
       IF codec.bytes[8] \in { 0, 1, 2 }
       THEN codec.result.err # "InvalidTag"
       ELSE codec.result = Failed("InvalidTag")
  /\ \A c \in CompressionTypes :
       CompressionType_try_from(u8_from(c)) = [ ok |-> TRUE, val |-> c ]
  /\ \A t \in 0..255 :
       CompressionType_try_from(t).ok <=> t \in { u8_from(c) : c \in CompressionTypes }

\* C12 witness: a record with a two-byte key and an empty value, written with
\* a compression other than none, has been decoded.
C12_Witness ==
  /\ codec.kind = "blob" /\ codec.pc = "decoded"
  /\ Len(codec.key) = 2 /\ codec.value = << >>
  /\ codec.compression # "None"
  /\ codec.result.ok

\* C13: write_file_header writes 'V', 'L', 'G' and the version as a big-endian
\* u16, five bytes in all, and parse_file_header of them is that version;
\* parse_file_header gives nothing for bytes that do not start with the magic,
\* that are fewer than five, or whose version is not a known one.
C13_FileHeaderRoundTrip ==
  /\ (codec.kind = "header" /\ codec.pc \in { "encoded", "decoded" }) =>
       /\ codec.size = 5 /\ Len(codec.bytes) = 5 /\ FileHeaderLen = 5
       /\ SubSeq(codec.bytes, 1, 3) = << 86, 76, 71 >>
       /\ codec.bytes[4] * 256 + codec.bytes[5] = u16_from(codec.version)
  /\ (codec.kind = "header" /\ codec.pc = "decoded") =>
       codec.result = [ ok |-> TRUE, val |-> codec.version ]
  /\ (codec.kind = "bytes" /\ codec.pc = "decoded") =>
       LET b == codec.bytes
           bad == \/ Len(b) < 5
                  \/ SubSeq(b, 1, 3) # << 86, 76, 71 >>
                  \/ b[4] * 256 + b[5] \notin { u16_from(v) : v \in Versions }
       IN /\ bad => codec.result = None
          /\ ~bad => codec.result.ok /\ u16_from(codec.result.val) = b[4] * 256 + b[5]

\* C13 witness: a header has been written and parsed back to its version.
C13_Witness ==
  /\ codec.kind = "header" /\ codec.pc = "decoded"
  /\ codec.bytes = << 86, 76, 71, 0, 1 >>
  /\ codec.result.ok

\* every registered segment's stats are as refresh_stats leaves them
StatsRefreshed ==
  \A id \in DOMAIN segments :
     /\ id \in DOMAIN seg_dirs
     /\ segments[id] = refresh_stats(segments[id], seg_dirs[id], id, index)

\* each registered segment holds one record whose value has bytes, and the
\* index points into the registered segments for every key written
OneRecordEach ==
  /\ status = "up" /\ ~WriteLocked /\ writers = << >>
  /\ DOMAIN segments # {}
  /\ \A id \in DOMAIN segments :
        /\ id \in DOMAIN seg_dirs
        /\ Len(seg_dirs[id]) = 1
        /\ seg_dirs[id][1].value # << >>
  /\ \A id \in DOMAIN segments :
        /\ seg_dirs[id][1].key \in DOMAIN index
        /\ index[seg_dirs[id][1].key].segment_id \in DOMAIN segments

\* the same key and value written once into each registered segment
SameKeyEach ==
  /\ OneRecordEach
  /\ \A i, j \in DOMAIN segments : seg_dirs[i][1] = seg_dirs[j][1]

\* a different key written once into each registered segment
DistinctKeyEach ==
  /\ OneRecordEach
  /\ \A i, j \in DOMAIN segments :
        i # j => seg_dirs[i][1].key # seg_dirs[j][1].key

\* the call returned, and returned the f32 q
Gives(r, q) == r.tag = "ok" /\ SameRatio(r.value, q)

\* C14: scan_for_stats, and refresh_stats of a segment, leave the stale
\* counters at the totals minus what the index references in the segment;
\* with the same key and value written into each of n segments and the stats
\* refreshed, space_amp is n and stale_ratio is 1 - 1/n; with n distinct keys,
\* one per segment, space_amp is 1 and stale_ratio is 0.
C14_StaleIsTotalMinusLive ==
  /\ [][ /\ ScanForStats =>
              \A id \in DOMAIN segments' :
                 /\ segments'[id].stale_items + LiveItems(index, id)
                      = segments'[id].item_count
                 /\ segments'[id].stale_bytes + LiveBytes(index, id)
                      = segments'[id].total_uncompressed_bytes
         /\ \A id \in DOMAIN segments :
              RefreshStats(id) =>
                 /\ segments'[id].stale_items + LiveItems(index, id)
                      = segments'[id].item_count
                 /\ segments'[id].stale_bytes + LiveBytes(index, id)
                      = segments'[id].total_uncompressed_bytes ]_vars
  /\ [] ( (SameKeyEach /\ StatsRefreshed) =>
            LET n == Cardinality(DOMAIN segments)
            IN /\ \A overflow_checks \in BOOLEAN :
                    Gives(space_amp(segments, overflow_checks), Quotient(n, 1))
               /\ \A overflow_checks \in BOOLEAN :
                    Gives(stale_ratio(segments, overflow_checks),
                          Quotient(n - 1, n)) )
  /\ [] ( (DistinctKeyEach /\ StatsRefreshed) =>
            /\ \A overflow_checks \in BOOLEAN :
                 Gives(space_amp(segments, overflow_checks), Quotient(1, 1))
            /\ \A overflow_checks \in BOOLEAN :
                 Gives(stale_ratio(segments, overflow_checks), Zero) )

\* C15: the stale counters of a registered segment never go down, and a
\* segment that is fully stale stays fully stale for as long as it is
\* registered.
C15_StalenessOnlyGrows ==
  [][ \A id \in (DOMAIN segments) \cap (DOMAIN segments') :
         /\ segments'[id].stale_items >= segments[id].stale_items
         /\ segments'[id].stale_bytes >= segments[id].stale_bytes
         /\ IsFullyStale(segments[id]) => IsFullyStale(segments'[id]) ]_vars

\* the totals a segment is sealed with: the records and bytes of its file
SealedTotals(blobs) ==
  [ item_count |-> Len(blobs), total_bytes |-> BlobBytes(blobs),
    total_uncompressed_bytes |->
      SumOver([i \in 1..Len(blobs) |-> Len(blobs[i].value)], 1..Len(blobs)) ]

TotalsOf(stats) ==
  [ item_count |-> stats.item_count, total_bytes |-> stats.total_bytes,
    total_uncompressed_bytes |-> stats.total_uncompressed_bytes ]

\* C16: item_count, total_bytes and total_uncompressed_bytes of every
\* registered segment are the values the segment was sealed with, whatever
\* has been done to the log since, a recover from disk included.
C16_TotalsKeepSealedValues ==
  \A id \in DOMAIN segments :
     id \in DOMAIN seg_dirs => TotalsOf(segments[id]) = SealedTotals(seg_dirs[id])

\* C17: the value a call of stale_ratio or space_amp returns is the metric of
\* a state the map had during the call; stale_ratio is at most 1, and the sum
\* of stale bytes space_amp subtracts is at most the sum it subtracts from.
C17_MetricsFromOneSnapshot ==
  reader.pc = "done" =>
     /\ \E q \in reader.seen : q.tag = "ok" /\ Gives(reader.result, q.value)
     /\ reader.stale_bytes <= reader.used_bytes
     /\ reader.metric = "stale_ratio" => F32Leq(reader.result.value, Quotient(1, 1))

\* the ids of the segments a MultiWriter hands to register when it finishes
FinishedIds(mw) ==
  LET fin == MultiWriterFinish(mw)
  IN { fin[i].segment_id : i \in 1..Len(fin) }

C19_TempFileSyncedBeforeRename ==
  [][ RewritePersist(TRUE) =>
        CrashOutcomes(manifest_file', manifest_synced')
           \subseteq CrashOutcomes(manifest_file, manifest_synced)
                        \cup { manifest_file' } ]_vars

\* the index returns, for the key of the record `it`, the handle of `it`
ReturnsOwnHandle(idx, it) ==
  /\ it.key \in DOMAIN idx
  /\ ValueHandle(idx[it.key].segment_id, idx[it.key].offset)
       = ValueHandle(it.segment_id, it.offset)

\* C20: rollover copies a record of a source segment iff the index returns
\* the record's own handle for its key; for each copied record it calls
\* insert_indirection once, with the handle of a new segment at which the
\* record is then written, and calls write after that; records that are not
\* live are neither written nor reported.
C20_RolloverCopiesLiveBlobs ==
  [][ /\ RolloverGet =>
           LET it == Head(gc.items)
           IN /\ gc'.calls = gc.calls /\ gc'.buffer = gc.buffer
              /\ IF ReturnsOwnHandle(index, it)
                 THEN gc'.pc = "insert" /\ gc'.items = gc.items
                 ELSE gc'.pc \in { "get", "copied" } /\ gc'.items = Tail(gc.items)
      /\ RolloverInsert =>
           LET it == Head(gc.items)
               ins == gc'.calls[Len(gc'.calls)]
               h == ins.handle
               reported == IF gc.immediate THEN index' ELSE gc'.buffer
           IN /\ Len(gc'.calls) = Len(gc.calls) + 1
              /\ ins.call = "insert_indirection"
              /\ ins.key = it.key /\ ins.size = Len(it.value)
              /\ h.segment_id \in gc.alloc
              /\ h.segment_id \notin DOMAIN segments
              /\ RecordsAt(seg_dirs[h.segment_id], h.offset) = {}
              /\ reported[it.key] = [ segment_id |-> h.segment_id,
                                      offset |-> h.offset, size |-> Len(it.value) ]
              /\ \A k \in (DOMAIN index') \ {it.key} :
                    k \in DOMAIN index /\ index'[k] = index[k]
              /\ ~gc.immediate => index' = index
              /\ gc'.pc = "write" /\ gc'.items = gc.items
      /\ RolloverWrite =>
           LET it == Head(gc.items)
               ins == gc.calls[Len(gc.calls)]
               wr == gc'.calls[Len(gc'.calls)]
               h == ins.handle
           IN /\ Len(gc'.calls) = Len(gc.calls) + 1
              /\ ins.call = "insert_indirection" /\ wr.call = "write"
              /\ wr.key = it.key /\ ins.key = it.key
              /\ wr.handle = h
              /\ \E i \in RecordsAt(seg_dirs'[h.segment_id], h.offset) :
                    seg_dirs'[h.segment_id][i] = [ key |-> it.key, value |-> it.value ]
              /\ Len(seg_dirs'[h.segment_id]) = Len(seg_dirs[h.segment_id]) + 1
              /\ \A id \in (DOMAIN seg_dirs) \ {h.segment_id} :
                    seg_dirs'[id] = seg_dirs[id]
              /\ \A id \in (DOMAIN seg_dirs') \ (DOMAIN seg_dirs) : seg_dirs'[id] = << >>
              /\ gc'.items = Tail(gc.items)
      \* between the calls of the loop nothing is written into the new
      \* segments and nothing is reported
      /\ ( gc.pc \in { "get", "insert", "write", "copied" } /\ status' = "up"
           /\ ~RolloverInsert /\ ~RolloverWrite ) =>
           /\ gc'.calls = gc.calls /\ gc'.buffer = gc.buffer
           /\ \A id \in gc.alloc \cap DOMAIN seg_dirs \cap DOMAIN seg_dirs' :
                 seg_dirs'[id] = seg_dirs[id] ]_vars
  /\ []( ( status = "up" /\ gc.pc = "copied" ) =>
           /\ Len(gc.calls) % 2 = 0
           /\ SumOver([id \in gc.alloc |->
                         IF id \in DOMAIN seg_dirs THEN Len(seg_dirs[id]) ELSE 0],
                      gc.alloc) * 2 = Len(gc.calls) )

\* C20 witness: a rollover of two segments, one of them with two records of
\* one key, has copied the two records the index points at into one new
\* segment and left the third one out.
C20_Witness ==
  /\ gc.pc = "copied"
  /\ Len(gc.calls) = 4
  /\ Cardinality(gc.sources) = 2
  /\ \E id \in gc.sources :
        /\ id \in DOMAIN seg_dirs
        /\ Len(seg_dirs[id]) = 2
        /\ seg_dirs[id][1].key = seg_dirs[id][2].key
  /\ \E id \in gc.alloc : id \in DOMAIN seg_dirs /\ Len(seg_dirs[id]) = 2

\* C21: register of a writer adds no segment without items: every id it
\* inserts has item_count >= 1 and a file with at least one record, and the
\* register of a writer to which nothing was written leaves the key set of the
\* map, and the id list it writes to the manifest, as they were.
C21_EmptyWriterNotPersisted ==
  [][ \A o \in DOMAIN writers, outcome \in { "ok", "finish_err", "tmp_err" } :
        RegisterBegin(o, outcome) =>
          /\ \A id \in (DOMAIN segments') \ (DOMAIN segments) :
                /\ segments'[id].item_count >= 1
                /\ id \in DOMAIN seg_dirs' /\ Len(seg_dirs'[id]) >= 1
          /\ \A id \in WriterIds(writers[o]) :
                (id \in DOMAIN seg_dirs /\ seg_dirs[id] = << >>) =>
                   id \notin DOMAIN segments'
          /\ writers[o].n = 0 =>
                /\ DOMAIN segments' = DOMAIN segments
                /\ op'.kind = "register" =>
                     /\ op'.ids = {}
                     /\ Range(load_ids_from_disk(op'.content)) = DOMAIN segments ]_vars

\* C21 witness: the register of a writer to which nothing was written is
\* rewriting the manifest, with a segment already registered.
C21_Witness ==
  /\ op.kind = "register" /\ op.stage = "tmp" /\ op.ids = {}
  /\ DOMAIN segments # {}
  /\ manifest_file = op.content

\* C22: drop_segments(ids) takes the listed ids, and nothing else, out of the
\* map and out of the manifest it writes: get_segment gives None for each of
\* them, every other segment stays with its stats, ids that are not
\* registered make no difference, and the same call made again leaves the map
\* and the id list as the first call left them.
C22_DropSegmentsRemovesExactlyIds ==
  [][ /\ \A ids \in SUBSET (0..(MaxId - 1)), tmp_ok \in BOOLEAN :
           DropSegments(ids, tmp_ok) =>
             /\ \A id \in ids : get_segment(id)'.tag = "None"
             /\ list_segment_ids' = list_segment_ids \ ids
             /\ \A id \in list_segment_ids \ ids :
                   get_segment(id)' = [ tag |-> "Some", stats |-> segments[id] ]
             /\ drop_segments(segments', ids) = segments'
             /\ tmp_ok =>
                  /\ Range(load_ids_from_disk(op'.content)) = list_segment_ids \ ids
                  /\ \E segment_ids \in KeysOf(drop_segments(segments', ids)) :
                        write_to_disk(segment_ids) = op'.content
      /\ (op.kind = "drop" /\ op.stage = "tmp" /\ op'.stage = "renamed") =>
            /\ Range(load_ids_from_disk(manifest_file')) = list_segment_ids'
            /\ Range(load_ids_from_disk(manifest_file')) \cap op.ids = {} ]_vars

\* C22 witness: drop_segments is called again with an id that was registered
\* and has been dropped, together with an id that was never handed out, while
\* another segment stays registered: the manifest it is about to rename into
\* place is the one already there.
C22_Witness ==
  /\ op.kind = "drop" /\ op.owner = "user" /\ op.stage = "tmp"
  /\ op.ids \cap hist.committed # {}
  /\ op.ids \ hist.all_ids # {}
  /\ op.content = manifest_file
  /\ list_segment_ids # {}

\* C23: whenever no register and no drop_segments call is in progress, the
\* ids stored in the manifest file are the keys of the segment map; a register
\* or drop_segments call that returns an error leaves the keys of the map as
\* they were before the call.
C23_MapEqualsManifestWhenIdle ==
  /\ [](( status = "up" /\ op.kind = "none" ) =>
          Range(load_ids_from_disk(manifest_file)) = list_segment_ids)
  /\ [][ /\ \A o \in DOMAIN writers, outcome \in { "finish_err", "tmp_err" } :
              RegisterBegin(o, outcome) => list_segment_ids' = list_segment_ids
         /\ DropStaleBegin(FALSE) => list_segment_ids' = list_segment_ids ]_vars

=============================================================================
